---- MODULE Spec2Model ----
(***************************************************************************)
(* Model of the data-loading part of 0_basics.ipynb: the CustomDataset     *)
(* class (pandas-backed, read from two CSV files), the cells that encode   *)
(* the labels, assert the row counts, save the tables as CSV, build the    *)
(* dataset, split it 80/20 and wrap the two parts in batched shuffled      *)
(* loaders.                                                                *)
(*                                                                         *)
(* Numbers.  A float64 cell holds a value with one decimal and is kept as  *)
(* the number of tenths (51 is 5.1); an int64 cell is kept as the integer. *)
(* A float32 is kept exactly, as <<m, s>> standing for m / 2^s with        *)
(* 2^23 <= m < 2^24 (or <<0, 0>> for zero).                                *)
(* Text.  A string is a sequence of one-character strings; a CSV file is   *)
(* the sequence of its lines.                                              *)
(***************************************************************************)
EXTENDS Integers, Sequences, FiniteSets, TLC

(***************************************************************************)
(* Bounds of the model.                                                    *)
(***************************************************************************)
MaxRows == 2        \* rows of an arbitrarily filled table
MaxShift == 1       \* sampled random orders of a large index range
MaxPasses == 2      \* passes over one loader

(***************************************************************************)
(* Text helpers.                                                           *)
(***************************************************************************)
DigitChar == <<"0", "1", "2", "3", "4", "5", "6", "7", "8", "9">>

DigitVal(c) == (CHOOSE d \in 1..10 : DigitChar[d] = c) - 1

RECURSIVE Digits(_)
Digits(n) ==
    IF n < 10 THEN <<DigitChar[n + 1]>>
    ELSE Digits(n \div 10) \o <<DigitChar[(n % 10) + 1]>>

RECURSIVE ParseInt(_)
ParseInt(s) ==
    IF Len(s) = 0 THEN 0
    ELSE 10 * ParseInt(SubSeq(s, 1, Len(s) - 1)) + DigitVal(s[Len(s)])

RECURSIVE Join(_)
Join(fields) ==
    IF Len(fields) = 0 THEN <<>>
    ELSE IF Len(fields) = 1 THEN fields[1]
    ELSE fields[1] \o <<",">> \o Join(Tail(fields))

RECURSIVE Split(_)
Split(line) ==
    IF \E p \in 1..Len(line) : line[p] = ","
    THEN LET p == CHOOSE q \in 1..Len(line) :
                      /\ line[q] = ","
                      /\ \A r \in 1..(q - 1) : line[r] # ","
         IN  <<SubSeq(line, 1, p - 1)>> \o Split(SubSeq(line, p + 1, Len(line)))
    ELSE <<line>>

HasPoint(s) == \E p \in 1..Len(s) : s[p] = "."

PointAt(s) == CHOOSE p \in 1..Len(s) : s[p] = "."

(***************************************************************************)
(* A DataFrame: column names, one dtype per column, rows of cells.         *)
(***************************************************************************)
DataFrame(cols, types, rws) == [columns |-> cols, dtypes |-> types, rows |-> rws]

\* repr of a cell as DataFrame.to_csv writes it: 5.1 -> "5.1", 5.0 -> "5.0", 2 -> "2"
FormatCell(dtype, v) ==
    IF dtype = "float64"
    THEN Digits(v \div 10) \o <<".">> \o Digits(v % 10)
    ELSE Digits(v)

\* a field as pandas.read_csv converts it into a column of the inferred dtype
ParseCell(dtype, s) ==
    IF dtype = "float64"
    THEN IF HasPoint(s)
         THEN 10 * ParseInt(SubSeq(s, 1, PointAt(s) - 1))
              + ParseInt(SubSeq(s, PointAt(s) + 1, Len(s)))
         ELSE 10 * ParseInt(s)
    ELSE ParseInt(s)

\* faulty variant, index=True: the row index goes out as a first, unnamed column
to_csv_index(df) ==
    <<Join(<<<<>>>> \o df.columns)>> \o
    [i \in 1..Len(df.rows) |->
        Join(<<Digits(i - 1)>> \o
             [j \in 1..Len(df.columns) |-> FormatCell(df.dtypes[j], df.rows[i][j])])]

\* DataFrame.to_csv(path, index=False): header line, then one line per row
to_csv(df) ==
    <<Join(df.columns)>> \o
    [i \in 1..Len(df.rows) |->
        Join([j \in 1..Len(df.columns) |-> FormatCell(df.dtypes[j], df.rows[i][j])])]

\* pandas.read_csv(path): first line is the header, blank lines are skipped,
\* a column is float64 when a field of it has a decimal point, else int64
read_csv(file) ==
    LET lines  == SelectSeq(file, LAMBDA l : Len(l) > 0)
        header == Split(lines[1])
        body   == Tail(lines)
        fields == [i \in 1..Len(body) |-> Split(body[i])]
        types  == [j \in 1..Len(header) |->
                     IF Len(body) = 0 THEN "object"
                     ELSE IF \E i \in 1..Len(fields) : HasPoint(fields[i][j])
                     THEN "float64" ELSE "int64"]
    IN  DataFrame(header, types,
                  [i \in 1..Len(fields) |->
                      [j \in 1..Len(header) |-> ParseCell(types[j], fields[i][j])]])

(***************************************************************************)
(* numpy float32 conversion, round to nearest, ties to even.               *)
(***************************************************************************)
Pow2(n) == 2 ^ n

RoundHalfEven(num, den) ==
    LET q == num \div den
        r == num % den
    IN  IF 2 * r > den \/ (2 * r = den /\ q % 2 = 1) THEN q + 1 ELSE q

\* the float32 nearest to num / den, for 0 <= num / den < 2^23
Float32(num, den) ==
    IF num = 0 THEN <<0, 0>>
    ELSE LET s == CHOOSE e \in 0..40 :
                      /\ num * Pow2(e) >= den * Pow2(23)
                      /\ num * Pow2(e) < 2 * den * Pow2(23)
             m == RoundHalfEven(num * Pow2(s), den)
         IN  IF m = Pow2(24) THEN <<Pow2(23), s - 1>> ELSE <<m, s>>

\* Series.to_numpy(dtype=np.float32) of one row
to_numpy_float32(df, row) ==
    [j \in 1..Len(row) |->
        IF df.dtypes[j] = "float64" THEN Float32(row[j], 10) ELSE Float32(row[j], 1)]

(***************************************************************************)
(* pandas positional access.                                               *)
(***************************************************************************)
\* faulty variant: every negative position is rejected
iloc_nonnegative(df, idx) ==
    LET n == Len(df.rows)
    IN  IF idx >= n \/ idx < 0 THEN [exc |-> "IndexError", row |-> <<>>]
        ELSE [exc |-> "none", row |-> df.rows[idx + 1]]

\* df.iloc[idx]: a negative idx counts from the end, anything outside
\* [-len, len) raises IndexError
iloc(df, idx) ==
    LET n == Len(df.rows)
    IN  IF idx >= n \/ idx < -n THEN [exc |-> "IndexError", row |-> <<>>]
        ELSE [exc |-> "none", row |-> df.rows[(IF idx < 0 THEN n + idx ELSE idx) + 1]]

\* Series.item(): the only element, ValueError unless there is exactly one
item(row) ==
    IF Len(row) = 1 THEN [exc |-> "none", value |-> row[1]]
    ELSE [exc |-> "ValueError", value |-> 0]

(***************************************************************************)
(* class CustomDataset(Dataset)                                            *)
(***************************************************************************)
Transforms == {"None", "double"}

\* what a transform would do to a feature vector if it were called
ApplyTransform(t, feat) ==
    IF t = "None" THEN feat
    ELSE [j \in 1..Len(feat) |->
             IF feat[j][1] = 0 THEN feat[j] ELSE <<feat[j][1], feat[j][2] - 1>>]

NoFrame == DataFrame(<<>>, <<>>, <<>>)

NoObject ==
    [targets_file |-> NoFrame, data_dir |-> NoFrame,
     transform |-> "None", target_transform |-> "None"]

CustomDataset_init(targets_file, data_file, transform, target_transform) ==
    IF Len(targets_file) = 0 \/ Len(data_file) = 0
    THEN [exc |-> "EmptyDataError", self |-> NoObject]
    ELSE [exc |-> "none",
          self |-> [targets_file |-> read_csv(targets_file),
                    data_dir |-> read_csv(data_file),
                    transform |-> transform,
                    target_transform |-> target_transform]]

CustomDataset_len(self) == Len(self.targets_file.rows)

\* faulty variant: the stored transform is applied to the features
getitem_features_transformed(self, idx) ==
    LET r == iloc(self.data_dir, idx)
    IN  IF r.exc # "none" THEN [exc |-> r.exc, feat |-> <<>>, self |-> self]
        ELSE [exc |-> "none",
              feat |-> ApplyTransform(self.transform,
                                      to_numpy_float32(self.data_dir, r.row)),
              self |-> self]

\* faulty variant: a successful read drops the last row of the features table
getitem_features_popping(self, idx) ==
    LET r == iloc(self.data_dir, idx)
        n == Len(self.data_dir.rows)
    IN  IF r.exc # "none" THEN [exc |-> r.exc, feat |-> <<>>, self |-> self]
        ELSE [exc |-> "none",
              feat |-> to_numpy_float32(self.data_dir, r.row),
              self |-> [self EXCEPT !.data_dir.rows = SubSeq(@, 1, n - 1)]]

\* first element of the returned tuple:
\* self.data_dir.iloc[idx].to_numpy(dtype=np.float32)
getitem_features(self, idx) ==
    LET r == iloc(self.data_dir, idx)
    IN  IF r.exc # "none" THEN [exc |-> r.exc, feat |-> <<>>, self |-> self]
        ELSE [exc |-> "none",
              feat |-> to_numpy_float32(self.data_dir, r.row),
              self |-> self]

\* faulty variant: a successful read drops the last row of the labels table
getitem_label_popping(self, idx) ==
    LET r == iloc(self.targets_file, idx)
        n == Len(self.targets_file.rows)
    IN  IF r.exc # "none" THEN [exc |-> r.exc, label |-> 0, self |-> self]
        ELSE [exc |-> item(r.row).exc, label |-> item(r.row).value,
              self |-> [self EXCEPT !.targets_file.rows = SubSeq(@, 1, n - 1)]]

\* second element of the returned tuple: self.targets_file.iloc[idx].item()
getitem_label(self, idx) ==
    LET r == iloc(self.targets_file, idx)
    IN  IF r.exc # "none" THEN [exc |-> r.exc, label |-> 0, self |-> self]
        ELSE [exc |-> item(r.row).exc, label |-> item(r.row).value, self |-> self]

\* __getitem__: the tuple is built left to right, the first exception wins
CustomDataset_getitem(self, idx) ==
    LET f == getitem_features(self, idx)
        l == getitem_label(f.self, idx)
    IN  IF f.exc # "none" THEN [exc |-> f.exc, ret |-> <<>>, self |-> f.self]
        ELSE IF l.exc # "none" THEN [exc |-> l.exc, ret |-> <<>>, self |-> l.self]
        ELSE [exc |-> "none", ret |-> <<f.feat, l.label>>, self |-> l.self]

(***************************************************************************)
(* State.                                                                  *)
(***************************************************************************)
VARIABLES
    targets_path,   \* contents of the targets CSV file, <<>> while it does not exist
    data_path,      \* contents of the features CSV file
    dataset,        \* the CustomDataset object
    construct_exc,  \* "pending" before __init__ ran, then "none" or the exception
    loaded,         \* the object as __init__ left it (history)
    readers,        \* the callers of __len__ / __getitem__, one record each
    x, y,           \* the notebook's feature and target frames
    cell,           \* the notebook cell to run next
    train_dataset,  \* Subset.indices of the first part of the split
    test_dataset,   \* Subset.indices of the second part
    loaders         \* the two DataLoaders' iteration state

class_vars == <<targets_path, data_path, dataset, construct_exc, loaded, readers>>

notebook_vars == <<x, y, cell, train_dataset, test_dataset, loaders>>

vars == <<targets_path, data_path, dataset, construct_exc, loaded, readers,
          x, y, cell, train_dataset, test_dataset, loaders>>

Readers == {"r1", "r2"}

\* rows and labels the arbitrarily filled tables are made of
FeatureRows == {<<51, 35>>, <<70, 2>>}

Labels == {0, 1}

FeatureNames == << <<"s", "l">>, <<"s", "w">> >>

TargetNames == << <<"c", "l", "a", "s", "s">> >>

SeqsUpTo(S, n) == UNION {[1..k -> S] : k \in 0..n}

FeatureFrames == {DataFrame(FeatureNames, <<"float64", "float64">>, rws) :
                     rws \in SeqsUpTo(FeatureRows, MaxRows)}

TargetFrames == {DataFrame(TargetNames, <<"int64">>, rws) :
                    rws \in SeqsUpTo({<<l>> : l \in Labels}, MaxRows)}

Indices == (0 - MaxRows - 1)..(MaxRows + 1)

Idle == [pc |-> "idle", op |-> "none", idx |-> 0, feat |-> <<>>,
         exc |-> "none", ret |-> <<>>]

NoLoader == [pc |-> "none", order |-> <<>>, sizes |-> <<>>, batch |-> <<>>,
             exc |-> "none", passes |-> 0]

(***************************************************************************)
(* The class on its own: any two CSV files, any callers.                   *)
(***************************************************************************)
Init ==
    /\ targets_path \in {to_csv(f) : f \in TargetFrames}
    /\ data_path \in {to_csv(f) : f \in FeatureFrames}
    /\ dataset = NoObject
    /\ construct_exc = "pending"
    /\ loaded = NoObject
    /\ readers = [r \in Readers |-> Idle]
    /\ x = NoFrame
    /\ y = NoFrame
    /\ cell = "none"
    /\ train_dataset = <<>>
    /\ test_dataset = <<>>
    /\ loaders = [l \in {"train", "test"} |-> NoLoader]

\* dataset = CustomDataset(targets_file=..., data_file=..., transform, target_transform)
Construct(transform, target_transform) ==
    /\ construct_exc = "pending"
    /\ LET r == CustomDataset_init(targets_path, data_path, transform, target_transform)
       IN  /\ dataset' = r.self
           /\ loaded' = r.self
           /\ construct_exc' = r.exc
    /\ UNCHANGED <<targets_path, data_path, readers>>
    /\ UNCHANGED notebook_vars

\* len(dataset)
CallLen(r) ==
    /\ construct_exc = "none"
    /\ readers[r].pc = "idle"
    /\ readers' = [readers EXCEPT ![r] =
           [pc |-> "done", op |-> "len", idx |-> 0, feat |-> <<>>,
            exc |-> "none", ret |-> <<CustomDataset_len(dataset)>>]]
    /\ UNCHANGED <<targets_path, data_path, dataset, construct_exc, loaded>>
    /\ UNCHANGED notebook_vars

\* dataset[idx] is entered
CallGetItem(r, idx) ==
    /\ construct_exc = "none"
    /\ readers[r].pc = "idle"
    /\ readers' = [readers EXCEPT ![r] =
           [pc |-> "features", op |-> "getitem", idx |-> idx, feat |-> <<>>,
            exc |-> "none", ret |-> <<>>]]
    /\ UNCHANGED <<targets_path, data_path, dataset, construct_exc, loaded>>
    /\ UNCHANGED notebook_vars

\* the first element of the tuple is evaluated
EvalFeatures(r) ==
    /\ readers[r].pc = "features"
    /\ LET f == getitem_features(dataset, readers[r].idx)
       IN  /\ dataset' = f.self
           /\ readers' = [readers EXCEPT ![r] =
                  IF f.exc # "none"
                  THEN [@ EXCEPT !.pc = "done", !.exc = f.exc]
                  ELSE [@ EXCEPT !.pc = "label", !.feat = f.feat]]
    /\ UNCHANGED <<targets_path, data_path, construct_exc, loaded>>
    /\ UNCHANGED notebook_vars

\* the second element is evaluated and the tuple returned
EvalLabel(r) ==
    /\ readers[r].pc = "label"
    /\ LET l == getitem_label(dataset, readers[r].idx)
       IN  /\ dataset' = l.self
           /\ readers' = [readers EXCEPT ![r] =
                  IF l.exc # "none"
                  THEN [@ EXCEPT !.pc = "done", !.exc = l.exc, !.feat = <<>>]
                  ELSE [@ EXCEPT !.pc = "done", !.feat = <<>>,
                                 !.ret = <<readers[r].feat, l.label>>]]
    /\ UNCHANGED <<targets_path, data_path, construct_exc, loaded>>
    /\ UNCHANGED notebook_vars

\* the caller takes the result and is free to call again
Return(r) ==
    /\ readers[r].pc = "done"
    /\ readers' = [readers EXCEPT ![r] = Idle]
    /\ UNCHANGED <<targets_path, data_path, dataset, construct_exc, loaded>>
    /\ UNCHANGED notebook_vars

Next ==
    \/ \E t \in Transforms, tt \in Transforms : Construct(t, tt)
    \/ \E r \in Readers : CallLen(r)
    \/ \E r \in Readers, idx \in Indices : CallGetItem(r, idx)
    \/ \E r \in Readers : EvalFeatures(r)
    \/ \E r \in Readers : EvalLabel(r)
    \/ \E r \in Readers : Return(r)

Spec == Init /\ [][Next]_vars

\* number of data rows of a CSV file: its lines without the header
FileRows(file) == Len(file) - 1

(***************************************************************************)
(* The notebook: cells 8, 10 and 11 run top to bottom on the frames x, y   *)
(* that cell 7 fetched.                                                    *)
(***************************************************************************)
\* class names of the raw target column, each standing for its rank in sorted order
RawClasses == {3, 8}

\* sizes of the large frames; their rows follow a fixed pattern
LargeSizes == {40, 42, 150}

LargeFeatures(n) ==
    DataFrame(FeatureNames, <<"float64", "float64">>,
              [i \in 1..n |-> <<43 + i, 20 + (i % 25)>>])

LargeTargets(n) ==
    DataFrame(TargetNames, <<"object">>,
              [i \in 1..n |-> <<IF i % 3 = 0 THEN 3 ELSE IF i % 3 = 1 THEN 8 ELSE 5>>])

RawTargetFrames == {DataFrame(TargetNames, <<"object">>, rws) :
                       rws \in SeqsUpTo({<<c>> : c \in RawClasses}, MaxRows)}

\* LabelEncoder().fit_transform(y): each class becomes its index among the sorted
\* distinct classes
fit_transform(df) ==
    LET classes == {df.rows[i][1] : i \in 1..Len(df.rows)}
    IN  [i \in 1..Len(df.rows) |->
            Cardinality({c \in classes : c < df.rows[i][1]})]

\* faulty variant: the ratio of the other part
train_size_swapped(n) == (2 * n) \div 10

\* int(0.8 * len(dataset)); the float product truncates to floor(8 n / 10) for
\* every n a table can have
train_size(n) == (8 * n) \div 10

test_size(n, train) == n - train

\* torch.utils.data.random_split(dataset, lengths): a random permutation of
\* range(len(dataset)) cut into consecutive runs of the given lengths
random_split(n, lengths, perm) ==
    IF lengths[1] + lengths[2] # n THEN [exc |-> "ValueError", parts |-> <<<<>>, <<>>>>]
    ELSE [exc |-> "none",
          parts |-> <<SubSeq(perm, 1, lengths[1]),
                      SubSeq(perm, lengths[1] + 1, n)>>]

\* the random orders of range(n) that are tried: every permutation of a short
\* range, rotations and their reversals of a long one
Rotation(n, k, rev) ==
    [i \in 1..n |-> IF rev THEN (n - 1) - ((i - 1 + k) % n) ELSE (i - 1 + k) % n]

Orders(n) ==
    IF n <= MaxRows + 1
    THEN {p \in [1..n -> 0..(n - 1)] : \A i, j \in 1..n : p[i] = p[j] => i = j}
    ELSE {Rotation(n, k, rev) : k \in 0..MaxShift, rev \in BOOLEAN}

\* faulty variant of the batch size
batch_size_halved == 32 \div 2

\* DataLoader(..., batch_size=32, shuffle=True)
batch_size == 32

\* Subset.__getitem__(pos): the record of the underlying dataset at indices[pos]
Subset_getitem(self, indices, pos) == CustomDataset_getitem(self, indices[pos + 1])

Min(a, b) == IF a < b THEN a ELSE b

NotebookInit ==
    /\ \/ /\ x \in FeatureFrames
          /\ y \in RawTargetFrames
       \/ \E n \in LargeSizes : x = LargeFeatures(n) /\ y = LargeTargets(n)
    /\ cell = "cell8"
    /\ targets_path = <<>>
    /\ data_path = <<>>
    /\ dataset = NoObject
    /\ construct_exc = "pending"
    /\ loaded = NoObject
    /\ readers = [r \in Readers |-> Idle]
    /\ train_dataset = <<>>
    /\ test_dataset = <<>>
    /\ loaders = [l \in {"train", "test"} |-> NoLoader]

\* cell 8: encode the target column, then assert the two row counts agree
Cell8 ==
    /\ cell = "cell8"
    /\ y' = DataFrame(y.columns, <<"int64">>,
                      [i \in 1..Len(y.rows) |-> <<fit_transform(y)[i]>>])
    /\ cell' = IF Len(x.rows) = Len(y.rows) THEN "cell10" ELSE "AssertionError"
    /\ UNCHANGED <<x, train_dataset, test_dataset, loaders>>
    /\ UNCHANGED class_vars

\* cell 10: define the class, write data.csv and targets.csv
Cell10 ==
    /\ cell = "cell10"
    /\ data_path' = to_csv(x)
    /\ targets_path' = to_csv(y)
    /\ cell' = "cell11"
    /\ UNCHANGED <<dataset, construct_exc, loaded, readers>>
    /\ UNCHANGED <<x, y, train_dataset, test_dataset, loaders>>

\* cell 11: build the dataset from the two files, split it, wrap both parts
Cell11(perm) ==
    /\ cell = "cell11"
    /\ LET d     == CustomDataset_init(targets_path, data_path, "None", "None")
           n     == CustomDataset_len(d.self)
           parts == random_split(n, <<train_size(n), test_size(n, train_size(n))>>, perm)
       IN  /\ perm \in Orders(n)
           /\ dataset' = d.self
           /\ loaded' = d.self
           /\ construct_exc' = d.exc
           /\ IF d.exc = "none" /\ parts.exc = "none"
              THEN /\ train_dataset' = parts.parts[1]
                   /\ test_dataset' = parts.parts[2]
                   /\ loaders' = [l \in {"train", "test"} |->
                                     [NoLoader EXCEPT !.pc = "idle"]]
                   /\ cell' = "done"
              ELSE /\ UNCHANGED <<train_dataset, test_dataset, loaders>>
                   /\ cell' = IF d.exc # "none" THEN d.exc ELSE parts.exc
    /\ UNCHANGED <<targets_path, data_path, readers, x, y>>

Part(l) == IF l = "train" THEN train_dataset ELSE test_dataset

Other(l) == IF l = "train" THEN "test" ELSE "train"

\* iter(loader): shuffle=True draws a fresh random order of the part's positions
StartPass(l, order) ==
    /\ loaders[l].pc = "idle"
    /\ loaders[Other(l)].pc # "iterating"
    /\ loaders[l].passes < MaxPasses
    /\ order \in Orders(Len(Part(l)))
    /\ loaders' = [loaders EXCEPT ![l] =
           [@ EXCEPT !.pc = "iterating", !.order = order, !.sizes = <<>>,
                     !.batch = <<>>]]
    /\ UNCHANGED <<x, y, cell, train_dataset, test_dataset>>
    /\ UNCHANGED class_vars

\* next(iterator) with positions left: fetch up to batch_size records
NextBatch(l) ==
    /\ loaders[l].pc = "iterating"
    /\ Len(loaders[l].order) > 0
    /\ LET k       == Min(batch_size, Len(loaders[l].order))
           fetched == [p \in 1..k |->
                          Subset_getitem(dataset, Part(l), loaders[l].order[p])]
       IN  IF \E p \in 1..k : fetched[p].exc # "none"
           THEN loaders' = [loaders EXCEPT ![l] =
                    [@ EXCEPT !.pc = "failed", !.batch = <<>>,
                              !.exc = fetched[CHOOSE p \in 1..k :
                                          /\ fetched[p].exc # "none"
                                          /\ \A q \in 1..(p - 1) :
                                                fetched[q].exc = "none"].exc]]
           ELSE loaders' = [loaders EXCEPT ![l] =
                    [@ EXCEPT !.order = SubSeq(@, k + 1, Len(@)),
                              !.sizes = Append(@, k),
                              !.batch = [p \in 1..k |-> fetched[p].ret]]]
    /\ UNCHANGED <<x, y, cell, train_dataset, test_dataset>>
    /\ UNCHANGED class_vars

\* next(iterator) with no position left: StopIteration ends the pass
EndPass(l) ==
    /\ loaders[l].pc = "iterating"
    /\ Len(loaders[l].order) = 0
    /\ loaders' = [loaders EXCEPT ![l] =
           [@ EXCEPT !.pc = "idle", !.passes = @ + 1]]
    /\ UNCHANGED <<x, y, cell, train_dataset, test_dataset>>
    /\ UNCHANGED class_vars

NotebookNext ==
    \/ Cell8
    \/ Cell10
    \/ \E perm \in Orders(FileRows(targets_path)) : Cell11(perm)
    \/ \E l \in {"train", "test"} : \E order \in Orders(Len(Part(l))) : StartPass(l, order)
    \/ \E l \in {"train", "test"} : NextBatch(l)
    \/ \E l \in {"train", "test"} : EndPass(l)

NotebookSpec == NotebookInit /\ [][NotebookNext]_vars

(***************************************************************************)
(* Properties of the class.                                                *)
(***************************************************************************)
\* __getitem__ calls that have returned or raised
Finished == {r \in Readers : readers[r].pc = "done" /\ readers[r].op = "getitem"}

\* the record at position p (1-based in each table) of the object as loaded
RecordAt(p, q) ==
    << [j \in 1..Len(loaded.data_dir.rows[p]) |->
           Float32(loaded.data_dir.rows[p][j], 10)],
       loaded.targets_file.rows[q][1] >>

\* C1: construction from two tables whose row counts differ ends in an error and
\* leaves no usable object.
C1_MismatchRejected ==
    (construct_exc # "pending" /\ FileRows(data_path) # FileRows(targets_path))
        => (construct_exc # "none" /\ dataset = NoObject)

\* C2 as stated: every index below 0 or at least size() makes get raise IndexError
\* and return nothing.
C2_OutsideRaises ==
    \A r \in Finished :
        (readers[r].idx < 0 \/ readers[r].idx >= Len(loaded.targets_file.rows))
            => (readers[r].exc = "IndexError" /\ readers[r].ret = <<>>)

\* C2 amended: an index >= size() or < -size() makes get raise IndexError and
\* return nothing; an index in [-size(), 0) is not rejected for being negative: it
\* counts from the end of each table, and where the features table has at least
\* -index rows get returns (features row len(features)+index, label size()+index).
C2_OutsideRaisesNegativeWraps ==
    \A r \in Finished :
        LET i  == readers[r].idx
            n  == Len(loaded.targets_file.rows)
            nd == Len(loaded.data_dir.rows)
        IN  /\ (i >= n \/ i < 0 - n)
                => (readers[r].exc = "IndexError" /\ readers[r].ret = <<>>)
            /\ (i < 0 /\ i >= 0 - n /\ i >= 0 - nd)
                => (readers[r].exc = "none"
                    /\ readers[r].ret = RecordAt(nd + i + 1, n + i + 1))

C2_Witness ==
    /\ \E r \in Finished : readers[r].idx < 0 /\ readers[r].exc = "none"
    /\ \E r \in Finished : readers[r].idx < 0 /\ readers[r].exc = "IndexError"

\* C3: for every index i in [0, size()) get(i) succeeds and returns (features row
\* i as float32, label i), the feature vector having the features table's column
\* count.
C3_ValidIndexReturnsRecord ==
    \A r \in Finished :
        LET i == readers[r].idx
        IN  (0 <= i /\ i < Len(loaded.targets_file.rows))
                => /\ readers[r].exc = "none"
                   /\ readers[r].ret = RecordAt(i + 1, i + 1)
                   /\ Len(readers[r].ret[1]) = Len(loaded.data_dir.columns)

\* C4: size() of a constructed dataset is the row count of the features file and
\* the row count of the labels file.
C4_SizeIsBothRowCounts ==
    \A r \in Readers :
        (readers[r].pc = "done" /\ readers[r].op = "len")
            => /\ readers[r].ret = <<FileRows(targets_path)>>
               /\ readers[r].ret = <<FileRows(data_path)>>

\* C5: no call of size() or get() changes the object: both tables stay as
\* construction left them, so a call's result depends only on its argument and on
\* the tables as loaded.
C5_ReadOnly ==
    construct_exc = "none" =>
        /\ dataset = loaded
        /\ \A r \in Readers :
              readers[r].pc = "done" =>
                  /\ readers[r].op = "len" =>
                        readers[r].ret = <<Len(loaded.targets_file.rows)>>
                  /\ \A s \in Readers :
                        (readers[s].pc = "done" /\ readers[s].op = readers[r].op
                         /\ readers[s].idx = readers[r].idx)
                            => (readers[s].exc = readers[r].exc
                                /\ readers[s].ret = readers[r].ret)

C5_Witness ==
    /\ readers["r1"].pc = "done" /\ readers["r1"].op = "getitem"
    /\ readers["r1"].exc = "none"
    /\ readers["r2"].pc = "done" /\ readers["r2"].op = "getitem"
    /\ readers["r2"].idx = readers["r1"].idx

\* C6: however the readers' calls interleave, a call returns what it would return
\* if it ran alone on the object as loaded, a half-done call holds the features it
\* would hold alone, and the tables never differ from the loaded ones.
C6_InterleavingInvisible ==
    construct_exc = "none" =>
        /\ dataset.targets_file = loaded.targets_file
        /\ dataset.data_dir = loaded.data_dir
        /\ \A r \in Readers :
              LET alone == CustomDataset_getitem(loaded, readers[r].idx)
              IN  /\ (readers[r].pc = "done" /\ readers[r].op = "getitem")
                        => (readers[r].exc = alone.exc /\ readers[r].ret = alone.ret)
                  /\ readers[r].pc = "label"
                        => readers[r].feat = getitem_features(loaded, readers[r].idx).feat
                  /\ (readers[r].pc = "done" /\ readers[r].op = "len")
                        => readers[r].ret = <<CustomDataset_len(loaded)>>

C6_Witness ==
    /\ readers["r1"].pc = "label"
    /\ readers["r2"].pc = "done" /\ readers["r2"].op = "getitem"
    /\ readers["r2"].exc = "none"
    /\ readers["r2"].idx # readers["r1"].idx

\* C10: the transforms given to the constructor never show: a dataset built from
\* the same two files with any other transforms has the same size and the same
\* result of get at every index, and every returned record is the untransformed
\* one.
C10_TransformsIgnored ==
    construct_exc = "none" =>
        /\ (\A r \in Readers : readers[r].pc = "idle") =>
              \A t \in Transforms, tt \in Transforms :
                  LET other == CustomDataset_init(targets_path, data_path, t, tt).self
                  IN  /\ other.transform = t /\ other.target_transform = tt
                      /\ CustomDataset_len(other) = CustomDataset_len(dataset)
                      /\ \A i \in Indices :
                            /\ CustomDataset_getitem(other, i).exc
                                  = CustomDataset_getitem(dataset, i).exc
                            /\ CustomDataset_getitem(other, i).ret
                                  = CustomDataset_getitem(dataset, i).ret
        /\ \A r \in Finished :
              (readers[r].exc = "none" /\ readers[r].idx >= 0)
                  => readers[r].ret = RecordAt(readers[r].idx + 1, readers[r].idx + 1)

C10_Witness ==
    /\ construct_exc = "none"
    /\ dataset.transform # "None"
    /\ dataset.target_transform # "None"
    /\ \E r \in Finished : readers[r].exc = "none" /\ readers[r].idx >= 0

(***************************************************************************)
(* Properties of the notebook run.                                         *)
(***************************************************************************)
RECURSIVE SumSeq(_)
SumSeq(s) == IF Len(s) = 0 THEN 0 ELSE s[1] + SumSeq(Tail(s))

Elems(s) == {s[i] : i \in 1..Len(s)}

\* record i (0-based) of the frames x and y as cell 8 left them, features as float32
OriginalRecord(i) ==
    << [j \in 1..Len(x.rows[i + 1]) |-> Float32(x.rows[i + 1][j], 10)],
       y.rows[i + 1][1] >>

Fresh == \A l \in {"train", "test"} : loaders[l].pc = "idle" /\ loaders[l].passes = 0

\* C7: the split of N records has a train part of floor(0.8 N) and a test part of
\* N - floor(0.8 N) indices (120 and 30 of 150); the two parts are disjoint, hold
\* no index twice, together hold every index of [0, N), and position p of a part
\* shows the record of the underlying tables at the part's p-th index.
C7_SplitPartitions ==
    cell = "done" =>
        LET n == Len(x.rows)
        IN  /\ Len(train_dataset) = (4 * n) \div 5
            /\ Len(test_dataset) = n - (4 * n) \div 5
            /\ n = 150 => (Len(train_dataset) = 120 /\ Len(test_dataset) = 30)
            /\ Elems(train_dataset) \cap Elems(test_dataset) = {}
            /\ Elems(train_dataset) \cup Elems(test_dataset) = 0..(n - 1)
            /\ Cardinality(Elems(train_dataset)) = Len(train_dataset)
            /\ Cardinality(Elems(test_dataset)) = Len(test_dataset)
            /\ Fresh =>
                  \A l \in {"train", "test"} : \A p \in 1..Len(Part(l)) :
                      /\ Subset_getitem(dataset, Part(l), p - 1).exc = "none"
                      /\ Subset_getitem(dataset, Part(l), p - 1).ret
                            = OriginalRecord(Part(l)[p])

C7_Witness ==
    /\ cell = "done"
    /\ Len(x.rows) = 150
    /\ Len(train_dataset) = 120
    /\ Len(test_dataset) = 30
    /\ train_dataset[1] # 0

\* the batches of a loader's current or last pass are well formed
BatchesWellFormed(l) ==
    LET s == loaders[l].sizes
        n == Len(Part(l))
    IN  /\ loaders[l].pc \in {"none", "idle", "iterating"}
        /\ cell = "done" => loaders[l].pc # "none"
        /\ \A i \in 1..Len(s) : s[i] >= 1 /\ s[i] <= 32
        /\ \A i \in 1..(Len(s) - 1) : s[i] = 32
        /\ loaders[l].pc = "iterating" =>
              /\ SumSeq(s) + Len(loaders[l].order) = n
              /\ Len(s) > 0 => Len(loaders[l].batch) = s[Len(s)]
              /\ (Len(s) > 0 /\ s[Len(s)] < 32) => Len(loaders[l].order) = 0
        /\ (loaders[l].pc = "iterating" /\ Len(loaders[l].order) = 0)
              => ENABLED EndPass(l)
        /\ (loaders[l].pc = "idle" /\ loaders[l].passes > 0) =>
              /\ SumSeq(s) = n
              /\ Len(s) = (n + 31) \div 32

\* a step taken during a pass yields a batch and shortens what is left of the
\* pass, or ends the pass
PassAdvances(l) ==
    (loaders[l].pc = "iterating" /\ loaders'[l] # loaders[l]) =>
        \/ /\ loaders'[l].pc = "iterating"
           /\ Len(loaders'[l].order) < Len(loaders[l].order)
           /\ Len(loaders'[l].sizes) = Len(loaders[l].sizes) + 1
        \/ /\ loaders'[l].pc = "idle"
           /\ Len(loaders[l].order) = 0
           /\ loaders'[l].passes = loaders[l].passes + 1

\* C8: a pass over a loader always ends: each step of it yields one more batch and
\* leaves fewer records to visit, and with none left the next step ends it, so a
\* pass over n records has ceil(n / 32) batches; the batches have exactly 32
\* records each except the last, which has between 1 and 32; and a pass that has
\* ended leaves the loader idle, the state every pass starts from.
C8_PassTerminatesInBatches ==
    /\ [](\A l \in {"train", "test"} : BatchesWellFormed(l))
    /\ [][\A l \in {"train", "test"} : PassAdvances(l)]_vars

C8_Witness ==
    /\ loaders["train"].pc = "idle"
    /\ loaders["train"].passes = 2
    /\ loaders["train"].sizes = <<32, 32, 32, 24>>

\* C9: after x and y went to data.csv and targets.csv and a dataset was built from
\* the two files, size() is the frames' row count and get(i) is record i of the
\* frames (features as float32) for every i in [0, size()).
C9_RoundTrip ==
    cell = "done" =>
        /\ CustomDataset_len(dataset) = Len(x.rows)
        /\ CustomDataset_len(dataset) = Len(y.rows)
        /\ Fresh =>
              \A i \in 0..(Len(x.rows) - 1) :
                  /\ CustomDataset_getitem(dataset, i).exc = "none"
                  /\ CustomDataset_getitem(dataset, i).ret = OriginalRecord(i)

C9_Witness ==
    /\ cell = "done"
    /\ Len(x.rows) = 150
    /\ CustomDataset_getitem(dataset, 0).ret
          = << <<Float32(44, 10), Float32(21, 10)>>, 2 >>
    /\ CustomDataset_getitem(dataset, 149).ret
          = << <<Float32(193, 10), Float32(20, 10)>>, 0 >>

====
